---- MODULE Spec2Model ----
(***************************************************************************)
(* A model of src/src/backend.ts: FirestoreBackend, the Firestore backend   *)
(* of node_acl.  Strings that the code joins or splits (buckets, keys,      *)
(* storage ids, attribute names) are sequences of one-character strings.    *)
(***************************************************************************)
EXTENDS Integers, Sequences, FiniteSets, TLC

(***************************************************************************)
(* JavaScript values                                                        *)
(***************************************************************************)

\* a JS number, string or array, as one record shape
Num(n) == [kind |-> "number", n |-> n, s |-> <<>>, items |-> <<>>]
Str(s) == [kind |-> "string", n |-> 0, s |-> s, items |-> <<>>]
Arr(items) == [kind |-> "array", n |-> 0, s |-> <<>>, items |-> items]

\* a document attribute value: a boolean flag, or a string
Flag(b) == [kind |-> "boolean", flag |-> b, str |-> <<>>]
Text(s) == [kind |-> "string", flag |-> FALSE, str |-> s]

\* !val is FALSE: true, and every string but the empty one
Truthy(v) == IF v.kind = "boolean" THEN v.flag ELSE v.str # <<>>

DigitChar(d) ==
  CASE d = 0 -> "0" [] d = 1 -> "1" [] d = 2 -> "2" [] d = 3 -> "3" [] d = 4 -> "4"
    [] d = 5 -> "5" [] d = 6 -> "6" [] d = 7 -> "7" [] d = 8 -> "8" [] d = 9 -> "9"

RECURSIVE Decimal(_)
Decimal(n) == IF n < 10 THEN <<DigitChar(n)>> ELSE Decimal(n \div 10) \o <<DigitChar(n % 10)>>

\* String(key) of a number or a string
String(v) == IF v.kind = "number" THEN Decimal(v.n) ELSE v.s

\* the elements of a sequence
Range(seq) == {seq[i] : i \in 1..Len(seq)}

\* the first index of c in s, or 0
IndexOf(s, c) ==
  IF \E i \in 1..Len(s) : s[i] = c
  THEN CHOOSE i \in 1..Len(s) : s[i] = c /\ \A j \in 1..(i - 1) : s[j] # c
  ELSE 0

\* a set as a sequence, in one fixed order
RECURSIVE SetToSeq(_)
SetToSeq(S) ==
  IF S = {} THEN <<>>
  ELSE LET e == CHOOSE e \in S : TRUE IN <<e>> \o SetToSeq(S \ {e})

\* Array.from(new Set(arr)): the first occurrence of each element, in order
RECURSIVE Dedupe(_)
Dedupe(arr) ==
  IF arr = <<>> THEN <<>>
  ELSE LET front == Dedupe(SubSeq(arr, 1, Len(arr) - 1))
           last == arr[Len(arr)]
       IN IF last \in Range(front) THEN front ELSE Append(front, last)

(***************************************************************************)
(* Module-level constants and helpers                                       *)
(***************************************************************************)

BUCKET_FIELD == <<"@", "@", "b", "u", "c", "k", "e", "t">>

SEPARATOR == "."

\* [bucket, String(key)].join(''): the parts with nothing between them
getIdJoinedBare(bucket, key) == bucket \o String(key)

\* [bucket, String(key)].join('.')
getId(bucket, key) == bucket \o <<SEPARATOR>> \o String(key)

\* id.split('.').shift() || ''
getBucketFromId(id) ==
  LET i == IndexOf(id, SEPARATOR) IN IF i = 0 THEN id ELSE SubSeq(id, 1, i - 1)

\* Array.isArray(arr) ? arr : [arr]
makeArray(arr) == IF arr.kind = "array" THEN arr.items ELSE <<arr>>

\* a document's attributes: a function from attribute names to values
EmptyData == [a \in {} |-> Flag(TRUE)]

Without(data, name) == [a \in (DOMAIN data) \ {name} |-> data[a]]

\* an assignment that keeps the value of an attribute that is there
WithUnlessPresent(data, name, val) ==
  [a \in (DOMAIN data) \cup {name} |-> IF a \in DOMAIN data THEN data[a] ELSE val]

With(data, name, val) ==
  [a \in (DOMAIN data) \cup {name} |-> IF a = name THEN val ELSE data[a]]

\* Object.keys(data)
ObjectKeys(data) == SetToSeq(DOMAIN data)

\* Object.assign with its arguments swapped: the target wins
ObjectAssignSwapped(target, source) ==
  [a \in (DOMAIN target) \cup (DOMAIN source) |->
     IF a \in DOMAIN target THEN target[a] ELSE source[a]]

\* Object.assign({}, target, source)
ObjectAssign(target, source) ==
  [a \in (DOMAIN target) \cup (DOMAIN source) |->
     IF a \in DOMAIN source THEN source[a] ELSE target[a]]

\* a document snapshot: exists, and data() (the empty mapping stands for undefined)
NoDoc == [exists |-> FALSE, data |-> EmptyData]
DocOf(data) == [exists |-> TRUE, data |-> data]

\* snapToValues without the delete of the reserved attribute
snapToValuesKeepingBucket(docSnap) == ObjectKeys(docSnap.data)

\* const data = docSnap.data() || {}; delete data[BUCKET_FIELD]; Object.keys(data)
snapToValues(docSnap) == ObjectKeys(Without(docSnap.data, BUCKET_FIELD))

(***************************************************************************)
(* Building a batch: add, remove, del                                       *)
(***************************************************************************)

\* makeArray(values).reduce((data, val) => { data[val] = flag; return data; }, {})
FlagData(values, flag) ==
  [a \in {String(v) : v \in Range(makeArray(values))} |-> Flag(flag)]

UpdateOp(id, data) == [id |-> id, type |-> "update", data |-> data]
DeleteOp(id) == [id |-> id, type |-> "delete", data |-> EmptyData]

\* ops.unshift in place of ops.push: the operation goes to the front of the batch
addInFront(batch, bucket, key, values) ==
  <<UpdateOp(getId(bucket, key), FlagData(values, TRUE))>> \o batch

\* add(ops, bucket, key, values)
add(batch, bucket, key, values) ==
  Append(batch, UpdateOp(getId(bucket, key), FlagData(values, TRUE)))

\* remove(ops, bucket, key, values)
remove(batch, bucket, key, values) ==
  Append(batch, UpdateOp(getId(bucket, key), FlagData(values, FALSE)))

\* del(ops, bucket, keys)
del(batch, bucket, keys) ==
  batch \o [i \in 1..Len(makeArray(keys)) |-> DeleteOp(getId(bucket, makeArray(keys)[i]))]

(***************************************************************************)
(* The store gateway: a collection of documents, by id                      *)
(***************************************************************************)

\* collection.doc(id).get(), and each snapshot of store.getAll(...refs)
Fetch(st, id) == IF id \in DOMAIN st THEN DocOf(st[id]) ELSE NoDoc

\* a commit that replaces the collection by the documents the transaction has set
ApplyWritesAlone(st, writes) ==
  [id \in {i \in DOMAIN writes : writes[i].type = "set"} |-> writes[id].data]

\* the staged writes of a transaction, applied together
ApplyWrites(st, writes) ==
  LET kept == {id \in DOMAIN st : id \notin DOMAIN writes}
      set == {id \in DOMAIN writes : writes[id].type = "set"}
  IN [id \in kept \cup set |-> IF id \in set THEN writes[id].data ELSE st[id]]

(***************************************************************************)
(* end(ops, cb): the update function of the transaction                     *)
(***************************************************************************)

\* "prepare document references": the distinct ids, by first occurrence
PrepareRefs(batch) == Dedupe([i \in 1..Len(batch) |-> batch[i].id])

\* "get all documents from firestore": the working set after the read
ReadDocs(st, refs) ==
  [id \in Range(refs) |->
     [deleted |-> FALSE,
      snap |-> Fetch(st, id),
      snapData |-> IF Fetch(st, id).exists THEN Fetch(st, id).data ELSE EmptyData]]

\* no assertion
assertNothing(value) == TRUE

\* assert.ok(value)
assertOk(value) == value

\* case 'delete' that leaves the flag as it is
MarkNothing(doc) == doc

\* case 'delete': doc.deleted = true
MarkDeleted(doc) == [doc EXCEPT !.deleted = TRUE]

\* case 'update': doc.snapData = Object.assign({}, doc.snapData || {}, op.data || {})
MergeUpdate(doc, op) == [doc EXCEPT !.snapData = ObjectAssign(doc.snapData, op.data)]

RECURSIVE ApplyOps(_, _)

\* a default case that breaks: the operation is passed over
BreakUnknown(ws, batch) == ApplyOps(ws, Tail(batch))

\* default: throw new Error('Unknown operation type: ' + op.type)
ThrowUnknown(ws, batch) == [error |-> "UnknownOperationType", docs |-> ws]

\* "apply operations": the working set after the fold, or the error thrown
ApplyOps(ws, batch) ==
  IF batch = <<>> THEN [error |-> "null", docs |-> ws]
  ELSE LET op == Head(batch)
           doc == ws[op.id]
       IN CASE op.type = "update" ->
                 IF assertOk(~doc.deleted)
                 THEN ApplyOps([ws EXCEPT ![op.id] = MergeUpdate(doc, op)], Tail(batch))
                 ELSE [error |-> "AssertionError", docs |-> ws]
            [] op.type = "delete" ->
                 ApplyOps([ws EXCEPT ![op.id] = MarkDeleted(doc)], Tail(batch))
            [] OTHER -> ThrowUnknown(ws, batch)

\* the save loop without the delete of the falsy attributes
PruneNothing(data) == data

\* for (const [key, val] of Object.entries(data)) if (!val) delete data[key]
PruneFalsy(data) == [a \in {b \in DOMAIN data : Truthy(data[b])} |-> data[a]]

\* the test of the length without its negation
ShouldDeleteNonEmpty(doc, data) == doc.deleted \/ Len(ObjectKeys(data)) # 0

\* doc.deleted || !Object.keys(data).length
ShouldDelete(doc, data) == doc.deleted \/ Len(ObjectKeys(data)) = 0

\* "save changes": the write staged for each document of the working set
SaveChanges(ws) ==
  [id \in DOMAIN ws |->
     LET data == PruneFalsy(ws[id].snapData)
     IN IF ShouldDelete(ws[id], data)
        THEN [type |-> "delete", data |-> EmptyData]
        ELSE [type |-> "set", data |-> With(data, BUCKET_FIELD, Text(getBucketFromId(id)))]]

\* doc.ref.set and doc.ref.delete in place of tx.set and tx.delete: written at once
StoreAfterDirectSave(st, writes) == ApplyWrites(st, writes)

\* tx.set and tx.delete buffer the write in the transaction: the store is as it was
StoreAfterSave(st, writes) == st

(***************************************************************************)
(* The queries: get, union, unions                                          *)
(***************************************************************************)

\* keys.map(key => getId(bucket, key))
bucketIds(bucket, keys) == [i \in 1..Len(keys) |-> getId(bucket, keys[i])]

RECURSIVE Concat(_)
Concat(seqs) == IF seqs = <<>> THEN <<>> ELSE Head(seqs) \o Concat(Tail(seqs))

\* get(bucket, key, cb): the callback's arguments
get(st, bucket, key) ==
  LET docSnap == Fetch(st, getId(bucket, key))
  IN IF ~docSnap.exists
     THEN [err |-> "null", result |-> <<>>]
     ELSE [err |-> "null", result |-> snapToValues(docSnap)]

\* union(bucket, keys, cb): the callback's arguments
union(st, bucket, keys) ==
  LET ids == bucketIds(bucket, keys)
      found == [i \in 1..Len(ids) |->
                  IF Fetch(st, ids[i]).exists THEN ObjectKeys(Fetch(st, ids[i]).data) ELSE <<>>]
  IN [err |-> "null", result |-> Dedupe(Concat(found))]

\* every fetched document collected under the bucket its reserved attribute names
UnionsCollectByAttribute(st, ids, bucket) ==
  Concat([i \in 1..Len(ids) |->
            IF Fetch(st, ids[i]).exists /\ Fetch(st, ids[i]).data[BUCKET_FIELD] = Text(bucket)
            THEN snapToValues(Fetch(st, ids[i]))
            ELSE <<>>])

\* every fetched document collected under every bucket
UnionsCollectAll(st, ids, bucket) ==
  Concat([i \in 1..Len(ids) |-> snapToValues(Fetch(st, ids[i]))])

\* the members unions collects under one bucket of its result
UnionsCollect(st, ids, bucket) ==
  Concat([i \in 1..Len(ids) |->
            IF getBucketFromId(ids[i]) = bucket THEN snapToValues(Fetch(st, ids[i])) ELSE <<>>])

\* unions(buckets, keys, cb): the callback's arguments; result[bucket].concat of an
\* undefined result[bucket] throws
unions(st, buckets, keys) ==
  LET ids == Concat([i \in 1..Len(buckets) |-> bucketIds(buckets[i], keys)])
  IN IF \E i \in 1..Len(ids) : getBucketFromId(ids[i]) \notin Range(buckets)
     THEN [err |-> "TypeError", result |-> <<>>]
     ELSE [err |-> "null",
           result |-> [b \in Range(buckets) |-> Dedupe(UnionsCollect(st, ids, b))]]

(***************************************************************************)
(* The callers                                                              *)
(***************************************************************************)

\* the clients that call the backend
Clients == {1, 2}

\* the most operations in the batches of all clients together; the clients that make
\* calls share them evenly
MaxOps == 2

x == <<"x">>
y == <<"y">>

\* the arguments the clients call the backend with: every kind of values on the
\* document a.k, and enough on a.7 and b.k for two documents of one bucket and two buckets
Buckets == {<<"a">>, <<"b">>}
Keys == {Str(<<"k">>), Num(7)}
ValuesArgs == {Str(x), Arr(<<Str(x), Str(y)>>), Str(BUCKET_FIELD), Arr(<<>>)}
AddArgs ==
  {<<(<<"a">>), Str(<<"k">>), v>> : v \in ValuesArgs}
    \cup {<<(<<"a">>), Num(7), Arr(<<Str(x), Str(y)>>)>>, <<(<<"b">>), Str(<<"k">>), Str(y)>>}
RemoveArgs ==
  {<<(<<"a">>), Str(<<"k">>), v>> : v \in ValuesArgs \ {Arr(<<>>)}}
    \cup {<<(<<"a">>), Num(7), Str(x)>>, <<(<<"b">>), Str(<<"k">>), Str(y)>>}
DelArgs ==
  {<<(<<"a">>), Str(<<"k">>)>>, <<(<<"a">>), Arr(<<Str(<<"k">>), Num(7)>>)>>,
   <<(<<"b">>), Str(<<"k">>)>>}
KeyLists == {<<Str(<<"k">>), Num(7)>>, <<Num(7)>>}
KeyNameLists == {<<Str(<<"k">>), Str(<<"7">>)>>, <<Str(<<"k">>)>>}
BucketLists == {<<(<<"a">>), (<<"b">>)>>, <<(<<"b">>)>>}

\* an operation of no known type, which a caller pushes to its batch itself
UntypedOps == {[id |-> getId(<<"a">>, Str(<<"k">>)), type |-> "insert", data |-> EmptyData]}

VARIABLES
  store,    \* the collection: the data of each existing document, by id
  ops,      \* ops[c]: the batch of client c
  pc,       \* pc[c]: "idle", or where the end call of c stands ("off": c makes no call)
  docs,     \* docs[c]: the working set of the latest update function of c
  tx,       \* tx[c]: the writes staged in the latest transaction of c
  cb,       \* cb[c]: the arguments of the callbacks of the latest end call of c
  reply     \* reply[c]: the latest query of c and the arguments of its callback

vars == <<store, ops, pc, docs, tx, cb, reply>>

Empty == [a \in {} |-> TRUE]

NoReply == [call |-> "none", buckets |-> <<>>, keys |-> <<>>, err |-> "null", result |-> <<>>]

InitWith(pcs) ==
  /\ store = Empty
  /\ ops = [c \in Clients |-> <<>>]
  /\ pc = pcs
  /\ docs = [c \in Clients |-> Empty]
  /\ tx = [c \in Clients |-> Empty]
  /\ cb = [c \in Clients |-> <<>>]
  /\ reply = [c \in Clients |-> NoReply]

\* one client calls the backend, each call after the one before has called back
Init == InitWith([c \in Clients |-> IF c = 1 THEN "idle" ELSE "off"])

\* two clients call the backend concurrently
InitConcurrent == InitWith([c \in Clients |-> "idle"])

\* the most operations in the batch of one client
MaxBatch == MaxOps \div Cardinality({c \in Clients : pc[c] # "off"})

\* the results of the call before are dropped when client c goes on
Forget(c) ==
  /\ docs' = [docs EXCEPT ![c] = Empty]
  /\ tx' = [tx EXCEPT ![c] = Empty]
  /\ cb' = [cb EXCEPT ![c] = <<>>]
  /\ reply' = [reply EXCEPT ![c] = NoReply]

\* begin(): a new, empty batch
Begin(c) ==
  /\ pc[c] = "idle"
  /\ ops[c] # <<>>
  /\ ops' = [ops EXCEPT ![c] = <<>>]
  /\ Forget(c)
  /\ UNCHANGED <<store, pc>>

Add(c) ==
  \E args \in AddArgs :
    /\ pc[c] = "idle"
    /\ Len(ops[c]) < MaxBatch
    /\ ops' = [ops EXCEPT ![c] = add(ops[c], args[1], args[2], args[3])]
    /\ Forget(c)
    /\ UNCHANGED <<store, pc>>

Remove(c) ==
  \E args \in RemoveArgs :
    /\ pc[c] = "idle"
    /\ Len(ops[c]) < MaxBatch
    /\ ops' = [ops EXCEPT ![c] = remove(ops[c], args[1], args[2], args[3])]
    /\ Forget(c)
    /\ UNCHANGED <<store, pc>>

Del(c) ==
  \E args \in DelArgs :
    /\ pc[c] = "idle"
    /\ Len(ops[c]) + Len(makeArray(args[2])) <= MaxBatch
    /\ ops' = [ops EXCEPT ![c] = del(ops[c], args[1], args[2])]
    /\ Forget(c)
    /\ UNCHANGED <<store, pc>>

\* the batch is the caller's array: ops.push(op), with an operation of any type
Push(c) ==
  \E op \in UntypedOps :
    /\ pc[c] = "idle"
    /\ Len(ops[c]) < MaxBatch
    /\ ops' = [ops EXCEPT ![c] = Append(ops[c], op)]
    /\ Forget(c)
    /\ UNCHANGED <<store, pc>>

\* end(ops, cb): runTransaction starts the update function, which asks for the documents
End(c) ==
  /\ pc[c] = "idle"
  /\ pc' = [pc EXCEPT ![c] = "reading"]
  /\ Forget(c)
  /\ UNCHANGED <<store, ops>>

\* store.getAll(...refs) answers; the update function folds the batch and stages the
\* writes, or throws and runTransaction rejects: .then(..., cb)
EndRead(c) ==
  /\ pc[c] = "reading"
  /\ LET applied == ApplyOps(ReadDocs(store, PrepareRefs(ops[c])), ops[c])
     IN IF applied.error = "null"
        THEN /\ docs' = [docs EXCEPT ![c] = applied.docs]
             /\ tx' = [tx EXCEPT ![c] = SaveChanges(applied.docs)]
             /\ store' = StoreAfterSave(store, SaveChanges(applied.docs))
             /\ pc' = [pc EXCEPT ![c] = "staged"]
             /\ UNCHANGED <<ops, cb, reply>>
        ELSE /\ cb' = [cb EXCEPT ![c] = Append(@, applied.error)]
             /\ pc' = [pc EXCEPT ![c] = "idle"]
             /\ UNCHANGED <<store, ops, docs, tx, reply>>

\* store.getAll(...refs) rejects, and so does runTransaction: .then(..., cb)
EndReadFails(c) ==
  /\ pc[c] = "reading"
  /\ cb' = [cb EXCEPT ![c] = Append(@, "ReadError")]
  /\ pc' = [pc EXCEPT ![c] = "idle"]
  /\ UNCHANGED <<store, ops, docs, tx, reply>>

\* the gateway commits the transaction: .then(() => cb(null), ...)
EndCommit(c) ==
  /\ pc[c] = "staged"
  /\ store' = ApplyWrites(store, tx[c])
  /\ cb' = [cb EXCEPT ![c] = Append(@, "null")]
  /\ pc' = [pc EXCEPT ![c] = "idle"]
  /\ UNCHANGED <<ops, docs, tx, reply>>

\* a rejection that nobody handles: .then(() => cb(null)) with no second handler
EndRejectUnhandled(c) ==
  /\ pc[c] = "staged"
  /\ pc' = [pc EXCEPT ![c] = "idle"]
  /\ UNCHANGED <<store, ops, docs, tx, cb, reply>>

\* the gateway rejects the transaction: .then(..., cb)
EndReject(c) ==
  /\ pc[c] = "staged"
  /\ cb' = [cb EXCEPT ![c] = Append(@, "CommitError")]
  /\ pc' = [pc EXCEPT ![c] = "idle"]
  /\ UNCHANGED <<store, ops, docs, tx, reply>>

\* a client with no batch under way asks: get(bucket, key, cb)
Get(c) ==
  \E bucket \in Buckets, key \in Keys :
    /\ pc[c] = "idle"
    /\ ops[c] = <<>>
    /\ reply' = [reply EXCEPT ![c] =
         [call |-> "get", buckets |-> <<bucket>>, keys |-> <<key>>,
          err |-> get(store, bucket, key).err, result |-> get(store, bucket, key).result]]
    /\ UNCHANGED <<store, ops, pc, docs, tx, cb>>

\* union(bucket, keys, cb)
Union(c) ==
  \E bucket \in Buckets, keys \in KeyLists :
    /\ pc[c] = "idle"
    /\ ops[c] = <<>>
    /\ reply' = [reply EXCEPT ![c] =
         [call |-> "union", buckets |-> <<bucket>>, keys |-> keys,
          err |-> union(store, bucket, keys).err, result |-> union(store, bucket, keys).result]]
    /\ UNCHANGED <<store, ops, pc, docs, tx, cb>>

\* unions(buckets, keys, cb)
Unions(c) ==
  \E buckets \in BucketLists, keys \in KeyNameLists :
    /\ pc[c] = "idle"
    /\ ops[c] = <<>>
    /\ reply' = [reply EXCEPT ![c] =
         [call |-> "unions", buckets |-> buckets, keys |-> keys,
          err |-> unions(store, buckets, keys).err,
          result |-> unions(store, buckets, keys).result]]
    /\ UNCHANGED <<store, ops, pc, docs, tx, cb>>

Next ==
  \E c \in Clients :
    \/ Begin(c)
    \/ Add(c)
    \/ Remove(c)
    \/ Del(c)
    \/ Push(c)
    \/ End(c)
    \/ EndRead(c)
    \/ EndReadFails(c)
    \/ EndCommit(c)
    \/ EndReject(c)
    \/ Get(c)
    \/ Union(c)
    \/ Unions(c)

Spec == Init /\ [][Next]_vars

\* the calls that write: begin, add, remove, del, end
NextWrite ==
  \E c \in Clients :
    \/ Begin(c)
    \/ Add(c)
    \/ Remove(c)
    \/ Del(c)
    \/ End(c)
    \/ EndRead(c)
    \/ EndReadFails(c)
    \/ EndCommit(c)
    \/ EndReject(c)

SpecConcurrent == InitConcurrent /\ [][NextWrite]_vars

\* the promise of runTransaction settles: the gateway answers the read or fails it, and
\* commits the transaction or rejects it
EndSettles ==
  \A c \in Clients :
    /\ WF_vars(EndReadFails(c) \/ EndRead(c))
    /\ WF_vars(EndReject(c) \/ EndCommit(c))

\* one client that accumulates and ends batches, each end call settling
SpecSettling == Init /\ [][NextWrite]_vars /\ EndSettles

\* another writer of the collection gives the reserved attribute of a stored document
\* the name of another bucket, or the name of its own again: one document at a time,
\* and between the batches of the clients; the answers given before are of the
\* collection as it was
Edit ==
  \E id \in DOMAIN store, bucket \in Buckets :
    /\ \A c \in Clients : pc[c] \in {"idle", "off"} /\ ops[c] = <<>>
    /\ store[id][BUCKET_FIELD] # Text(bucket)
    /\ \A other \in (DOMAIN store) \ {id} :
         store[other][BUCKET_FIELD] = Text(getBucketFromId(other))
    /\ store' = [store EXCEPT ![id] = With(@, BUCKET_FIELD, Text(bucket))]
    /\ reply' = [c \in Clients |-> NoReply]
    /\ UNCHANGED <<ops, pc, docs, tx, cb>>

NextEdited == Next \/ Edit

\* one client calls the backend on a collection that another writer edits
SpecEdited == Init /\ [][NextEdited]_vars

(***************************************************************************)
(* The identifier codec on its own: getId, then getBucketFromId of the id    *)
(***************************************************************************)

\* buckets and keys of no, one and two characters, numbers of one and two digits, a
\* number and the string of its digits, and a bucket and a key with the separator
CodecBuckets == {<<>>, <<"a">>, <<"a", "c">>, <<"a", ".", "b">>}
CodecKeys ==
  {Str(<<>>), Str(<<"c">>), Str(<<"b", ".", "c">>), Str(<<"7">>), Num(7), Num(12)}

\* getId(bucket, key)
GetId(c) ==
  \E bucket \in CodecBuckets, key \in CodecKeys :
    /\ reply' = [reply EXCEPT ![c] =
         [call |-> "getId", buckets |-> <<bucket>>, keys |-> <<key>>,
          err |-> "null", result |-> getId(bucket, key)]]
    /\ UNCHANGED <<store, ops, pc, docs, tx, cb>>

\* getBucketFromId(id), of the id that getId has returned
GetBucketFromId(c) ==
  /\ reply[c].call = "getId"
  /\ reply' = [reply EXCEPT ![c] =
       [call |-> "getBucketFromId", buckets |-> reply[c].buckets, keys |-> reply[c].keys,
        err |-> "null", result |-> getBucketFromId(reply[c].result)]]
  /\ UNCHANGED <<store, ops, pc, docs, tx, cb>>

NextCodec == \E c \in Clients : GetId(c) \/ GetBucketFromId(c)

SpecCodec == InitConcurrent /\ [][NextCodec]_vars

(***************************************************************************)
(* What the claims speak of                                                 *)
(***************************************************************************)

Pairs == Buckets \X Keys

\* the latest end call of c has called back with null, and c has made no call since
Succeeded(c) == pc[c] = "idle" /\ cb[c] = <<"null">>

\* the members of the document id: its attributes but the reserved one
MembersOf(st, id) == IF id \in DOMAIN st THEN (DOMAIN st[id]) \ {BUCKET_FIELD} ELSE {}

\* the members a snapshot holds
MembersIn(docSnap) == IF docSnap.exists THEN (DOMAIN docSnap.data) \ {BUCKET_FIELD} ELSE {}

\* arr lists exactly the elements of S, each once
ListsOnce(arr, S) == Range(arr) = S /\ Len(arr) = Cardinality(S)

\* an operation as add and as remove append it
IsAdd(op) == op.type = "update" /\ \A a \in DOMAIN op.data : op.data[a] = Flag(TRUE)
IsRemove(op) == op.type = "update" /\ \A a \in DOMAIN op.data : op.data[a] = Flag(FALSE)

\* the store after an end call on st that commits
EndResult(st, batch) ==
  ApplyWrites(st, SaveChanges(ApplyOps(ReadDocs(st, PrepareRefs(batch)), batch).docs))

\* C1: atomicity of end. Only the step that commits a transaction changes the store:
\* an end call that fails, by a throw of the update function or by a rejection of the
\* gateway after the writes were staged, leaves every document as it was before the call.
C1_FailedEndKeepsStore ==
  [][store' # store =>
       \E c \in Clients : pc[c] = "staged" /\ pc'[c] = "idle" /\ cb'[c] = <<"null">>]_vars

\* an end call was rejected after it had staged writes that change the store
C1_Witness ==
  \E c \in Clients :
    pc[c] = "idle" /\ cb[c] = <<"CommitError">> /\ ApplyWrites(store, tx[c]) # store

\* C2: isolation of concurrent commits. An end call that commits leaves every key with
\* the members that running its batch on the store of that moment gives: the commits
\* are as if run one after the other, and none loses the update of another.
C2_CommitsAreSerial ==
  [][\A c \in Clients :
       (pc[c] = "staged" /\ pc'[c] = "idle" /\ cb'[c] = <<"null">>)
         => \A pair \in Pairs :
              MembersOf(store', getId(pair[1], pair[2]))
                = MembersOf(EndResult(store, ops[c]), getId(pair[1], pair[2]))]_vars

\* C3, as amended: after a successful end of a batch of one add of a non-empty M
\* without the reserved attribute name, on a key that had no document, get returns
\* exactly M, each member once.
C3_GetAfterAdd ==
  \A c \in Clients : \A pair \in Pairs :
    (/\ Succeeded(c)
     /\ Len(ops[c]) = 1
     /\ ops[c][1].id = getId(pair[1], pair[2])
     /\ IsAdd(ops[c][1])
     /\ DOMAIN ops[c][1].data # {}
     /\ BUCKET_FIELD \notin DOMAIN ops[c][1].data
     /\ ~docs[c][ops[c][1].id].snap.exists)
      => /\ get(store, pair[1], pair[2]).err = "null"
         /\ ListsOnce(get(store, pair[1], pair[2]).result, DOMAIN ops[c][1].data)

\* C3 as claimed: the same for every non-empty M
C3_GetAfterAddOfAny ==
  \A c \in Clients : \A pair \in Pairs :
    (/\ Succeeded(c)
     /\ Len(ops[c]) = 1
     /\ ops[c][1].id = getId(pair[1], pair[2])
     /\ IsAdd(ops[c][1])
     /\ DOMAIN ops[c][1].data # {}
     /\ ~docs[c][ops[c][1].id].snap.exists)
      => /\ get(store, pair[1], pair[2]).err = "null"
         /\ ListsOnce(get(store, pair[1], pair[2]).result, DOMAIN ops[c][1].data)

\* an add of the two members x and y to a key without a document has committed
C3_Witness ==
  \E c \in Clients :
    /\ Succeeded(c)
    /\ Len(ops[c]) = 1
    /\ IsAdd(ops[c][1])
    /\ DOMAIN ops[c][1].data = {x, y}
    /\ ~docs[c][ops[c][1].id].snap.exists

\* the operations of the batch on the document id
OpsOn(batch, id) == {i \in 1..Len(batch) : batch[i].id = id}

\* C4: tombstone on empty by remove. After a successful end of a batch that only
\* removes from a key whose document existed, its removes covering every member
\* present, get returns the empty set and no document is left for the key.
C4_RemoveAllLeavesNoDocument ==
  \A c \in Clients : \A pair \in Pairs :
    LET id == getId(pair[1], pair[2]) IN
    (/\ Succeeded(c)
     /\ OpsOn(ops[c], id) # {}
     /\ \A i \in OpsOn(ops[c], id) : IsRemove(ops[c][i])
     /\ docs[c][id].snap.exists
     /\ MembersIn(docs[c][id].snap) # {}
     /\ MembersIn(docs[c][id].snap) \subseteq UNION {DOMAIN ops[c][i].data : i \in OpsOn(ops[c], id)})
      => /\ get(store, pair[1], pair[2]).result = <<>>
         /\ id \notin DOMAIN store

\* id is deleted in the batch, and not updated after that
DeletedLast(batch, id) ==
  \E i \in OpsOn(batch, id) :
    /\ batch[i].type = "delete"
    /\ \A j \in OpsOn(batch, id) : j > i => batch[j].type # "update"

\* C5: delete wins over earlier updates. After a successful end of a batch that deletes
\* an id and does not update it afterwards, no document is stored for the id and get
\* returns the empty set, whatever was stored and whatever updates come before.
C5_DeleteWins ==
  \A c \in Clients : \A pair \in Pairs :
    (Succeeded(c) /\ DeletedLast(ops[c], getId(pair[1], pair[2])))
      => /\ getId(pair[1], pair[2]) \notin DOMAIN store
         /\ get(store, pair[1], pair[2]) = [err |-> "null", result |-> <<>>]

\* an update of a stored document, then its delete, have committed in one batch
C5_Witness ==
  \E c \in Clients :
    /\ Succeeded(c)
    /\ Len(ops[c]) = 2
    /\ ops[c][1].id = ops[c][2].id
    /\ IsAdd(ops[c][1]) /\ DOMAIN ops[c][1].data # {}
    /\ ops[c][2].type = "delete"
    /\ docs[c][ops[c][1].id].snap.exists

\* an update of an id comes after a delete of that id
UpdateAfterDelete(batch) ==
  \E i, j \in 1..Len(batch) :
    i < j /\ batch[i].id = batch[j].id /\ batch[i].type = "delete" /\ batch[j].type = "update"

\* C6: no update after delete. The end call of a batch with an update of an id after a
\* delete of that id calls back with an error once its read has answered, stages no
\* write and leaves every document as it was.
C6_UpdateAfterDeleteFails ==
  [][\A c \in Clients :
       (pc[c] = "reading" /\ pc'[c] # "reading" /\ UpdateAfterDelete(ops[c]))
         => /\ pc'[c] = "idle"
            /\ Len(cb'[c]) = 1 /\ cb'[c][1] # "null"
            /\ tx'[c] = Empty
            /\ store' = store]_vars

\* the assertion has failed an end call, with documents in the store
C6_Witness ==
  \E c \in Clients :
    /\ pc[c] = "idle"
    /\ cb[c] = <<"AssertionError">>
    /\ UpdateAfterDelete(ops[c])
    /\ ops[c][1].id \in DOMAIN store

\* the flag of the last operation of the batch on id that names the member, if any
Naming(batch, id, m) == {i \in OpsOn(batch, id) : batch[i].type = "update" /\ m \in DOMAIN batch[i].data}
LastFlag(batch, id, m) ==
  LET last == CHOOSE i \in Naming(batch, id, m) : \A j \in Naming(batch, id, m) : j <= i
  IN batch[last].data[m].flag
Named(batch, id) == UNION {DOMAIN batch[i].data : i \in OpsOn(batch, id)}
LastTrue(batch, id) == {m \in Named(batch, id) : LastFlag(batch, id, m)}
LastFalse(batch, id) == {m \in Named(batch, id) : ~LastFlag(batch, id, m)}

\* C7, as amended: ordered fold, the later operation wins. After a successful end of a
\* batch with no delete of an id, the members of the id are those stored before, plus
\* those whose last flag in the batch is true, minus those whose last flag is false,
\* the reserved attribute name not counted among them.
C7_LaterOperationWins ==
  \A c \in Clients : \A id \in DOMAIN docs[c] :
    (Succeeded(c) /\ \A i \in OpsOn(ops[c], id) : ops[c][i].type = "update")
      => Range(snapToValues(Fetch(store, id)))
           = ((MembersIn(docs[c][id].snap) \cup LastTrue(ops[c], id)) \ LastFalse(ops[c], id))
               \ {BUCKET_FIELD}

\* C7 as claimed: every member whose last flag is true is a member afterwards
C7_LaterOperationWinsForAny ==
  \A c \in Clients : \A id \in DOMAIN docs[c] :
    (Succeeded(c) /\ \A i \in OpsOn(ops[c], id) : ops[c][i].type = "update")
      => Range(snapToValues(Fetch(store, id)))
           = (MembersIn(docs[c][id].snap) \cup LastTrue(ops[c], id)) \ LastFalse(ops[c], id)

\* a batch that flags one member of a stored document both ways has committed
C7_Witness ==
  \E c \in Clients : \E id \in DOMAIN docs[c] :
    /\ Succeeded(c)
    /\ Len(ops[c]) = 2
    /\ OpsOn(ops[c], id) = {1, 2}
    /\ IsAdd(ops[c][1]) /\ IsRemove(ops[c][2])
    /\ x \in DOMAIN ops[c][1].data /\ x \in DOMAIN ops[c][2].data
    /\ docs[c][id].snap.exists
    /\ y \in MembersOf(store, id)

\* C8: idempotence of add. After a successful end of a batch of adds only, an end of
\* the same batch again leaves the stored documents, and so what get returns, the same.
C8_AddIsIdempotent ==
  \A c \in Clients :
    (Succeeded(c) /\ \A i \in 1..Len(ops[c]) : IsAdd(ops[c][i]))
      => EndResult(store, ops[c]) = store

\* a batch of adds has committed for the second time: it read what it had written
C8_Witness ==
  \E c \in Clients :
    /\ Succeeded(c)
    /\ Len(ops[c]) = 2
    /\ \A i \in 1..Len(ops[c]) : IsAdd(ops[c][i]) /\ DOMAIN ops[c][i].data # {}
    /\ \A id \in DOMAIN docs[c] :
         /\ docs[c][id].snap = Fetch(store, id)
         /\ MembersOf(store, id) = Named(ops[c], id)

\* C9: union returns the members of the existing documents of the keys, each once
\* and nothing else: the union of what get returns for each key.
C9_UnionOfMembers ==
  \A c \in Clients :
    reply[c].call = "union"
      => /\ reply[c].err = "null"
         /\ ListsOnce(reply[c].result,
              UNION {Range(get(store, reply[c].buckets[1], reply[c].keys[i]).result) :
                       i \in 1..Len(reply[c].keys)})

\* C10: unions returns a mapping on exactly the buckets asked for, each bucket with
\* the members of its existing documents for the keys, each once: none if none exists.
C10_UnionsPerBucket ==
  \A c \in Clients :
    reply[c].call = "unions"
      => /\ reply[c].err = "null"
         /\ DOMAIN reply[c].result = Range(reply[c].buckets)
         /\ \A b \in Range(reply[c].buckets) :
              ListsOnce(reply[c].result[b],
                UNION {MembersOf(store, getId(b, reply[c].keys[i])) : i \in 1..Len(reply[c].keys)})

\* unions has answered for two buckets: one with two documents that share a member,
\* one with no document
C10_Witness ==
  \E c \in Clients :
    /\ reply[c].call = "unions"
    /\ Len(reply[c].buckets) = 2 /\ Len(reply[c].keys) = 2
    /\ \A i \in 1..2 : x \in MembersOf(store, getId(reply[c].buckets[1], reply[c].keys[i]))
    /\ \A i \in 1..2 : getId(reply[c].buckets[2], reply[c].keys[i]) \notin DOMAIN store
    /\ reply[c].result[reply[c].buckets[2]] = <<>>

\* every member the document held is removed by the batch, which only removes from it
EmptiedBy(c, id) ==
  /\ Succeeded(c)
  /\ OpsOn(ops[c], id) # {}
  /\ \A i \in OpsOn(ops[c], id) : IsRemove(ops[c][i])
  /\ docs[c][id].snap.exists
  /\ MembersIn(docs[c][id].snap) # {}
  /\ MembersIn(docs[c][id].snap) \subseteq Named(ops[c], id)

\* what get, union and unions answer when the key has nothing to give
NothingFrom(st, bucket, key) ==
  /\ get(st, bucket, key) = [err |-> "null", result |-> <<>>]
  /\ union(st, bucket, <<key>>) = [err |-> "null", result |-> <<>>]
  /\ unions(st, <<bucket>>, <<Str(String(key))>>)
       = [err |-> "null", result |-> [b \in {bucket} |-> <<>>]]

\* C11: absence is not an error. get, union and unions addressed at a key that has no
\* document, because it was never written, was deleted, or was emptied by the removes
\* of the batch that committed last, answer with the empty set (unions: the empty set
\* for the bucket asked for) and without an error.
C11_AbsentIsEmpty ==
  \A c \in Clients : \A pair \in Pairs :
    (getId(pair[1], pair[2]) \notin DOMAIN store \/ EmptiedBy(c, getId(pair[1], pair[2])))
      => NothingFrom(store, pair[1], pair[2])

\* the part of C11 that is about the keys the store holds no document for
AbsentIsEmpty ==
  \A pair \in Pairs :
    getId(pair[1], pair[2]) \notin DOMAIN store => NothingFrom(store, pair[1], pair[2])

\* an operation of the batch has a type that is neither update nor delete
HasUnknownType(batch) == \E i \in 1..Len(batch) : batch[i].type \notin {"update", "delete"}

\* C12: unknown operation tag. The end call of a batch with an operation of a type
\* other than update and delete, at any position, calls back with an error once its
\* read has answered: no write is staged and every document stays as it was, those of
\* the operations before it in the batch among them.
C12_UnknownTypeFails ==
  [][\A c \in Clients :
       (pc[c] = "reading" /\ pc'[c] # "reading" /\ HasUnknownType(ops[c]))
         => /\ pc'[c] = "idle"
            /\ Len(cb'[c]) = 1 /\ cb'[c][1] # "null"
            /\ tx'[c] = Empty
            /\ store' = store]_vars

\* the end call of an add of a new member, then an operation of no known type, has
\* failed on the unknown type, and the member is not stored
C12_Witness ==
  \E c \in Clients :
    /\ pc[c] = "idle"
    /\ cb[c] = <<"UnknownOperationType">>
    /\ Len(ops[c]) = 2
    /\ IsAdd(ops[c][1]) /\ x \in DOMAIN ops[c][1].data
    /\ HasUnknownType(<<ops[c][2]>>)
    /\ x \notin MembersOf(store, ops[c][1].id)
    /\ store # Empty

\* the operations a step adds at the end of the batch of c
Appended(c) == SubSeq(ops'[c], Len(ops[c]) + 1, Len(ops'[c]))

\* the names of the members a call gives: one value, or an array of values
NamesOf(values) ==
  IF values.kind = "array" THEN {String(values.items[i]) : i \in 1..Len(values.items)}
  ELSE {String(values)}

\* the one update operation a call on bucket and key appends, every member with the flag
OneUpdate(c, bucket, key, values, flag) ==
  /\ Len(Appended(c)) = 1
  /\ Appended(c)[1].type = "update"
  /\ Appended(c)[1].id = bucket \o <<".">> \o String(key)
  /\ DOMAIN Appended(c)[1].data = NamesOf(values)
  /\ \A m \in NamesOf(values) : Appended(c)[1].data[m] = Flag(flag)

\* C13: accumulation is a pure append. begin gives an empty batch; add and remove
\* each append exactly one update operation, and del one delete operation per key in
\* the order of the keys, at the end of the batch; the operations already in the batch
\* and every stored document stay as they are, and the store changes only in a step
\* of an end call.
C13_PureAppend ==
  [][\A c \in Clients :
       /\ Begin(c) => ops'[c] = <<>> /\ store' = store
       /\ (Add(c) \/ Remove(c) \/ Del(c))
            => /\ SubSeq(ops'[c], 1, Len(ops[c])) = ops[c]
               /\ Len(ops'[c]) > Len(ops[c])
               /\ \A d \in Clients \ {c} : ops'[d] = ops[d]
               /\ store' = store
       /\ Add(c) => \E args \in AddArgs : OneUpdate(c, args[1], args[2], args[3], TRUE)
       /\ Remove(c) => \E args \in RemoveArgs : OneUpdate(c, args[1], args[2], args[3], FALSE)
       /\ Del(c)
            => \E args \in DelArgs :
                 LET keys == IF args[2].kind = "array" THEN args[2].items ELSE <<args[2]>>
                 IN /\ Len(Appended(c)) = Len(keys)
                    /\ \A i \in 1..Len(keys) :
                         /\ Appended(c)[i].type = "delete"
                         /\ Appended(c)[i].id = args[1] \o <<".">> \o String(keys[i])
       /\ store' # store => \E d \in Clients : pc[d] = "staged" /\ pc'[d] = "idle"]_vars

\* with documents in the store, a batch holds a delete and, appended after it, the
\* add of two members
C13_Witness ==
  \E c \in Clients :
    /\ pc[c] = "idle" /\ cb[c] = <<>>
    /\ Len(ops[c]) = 2
    /\ ops[c][1].type = "delete"
    /\ IsAdd(ops[c][2]) /\ DOMAIN ops[c][2].data = {x, y}
    /\ store # Empty

\* neither the bucket nor the key, as a string, of the call holds the separator
SeparatorFree(r) ==
  /\ SEPARATOR \notin Range(r.buckets[1])
  /\ SEPARATOR \notin Range(String(r.keys[1]))

\* C14, as amended: the identifier codec round trip. For a bucket and a key without
\* the separator, getBucketFromId(getId(bucket, key)) is the bucket, and two pairs that
\* differ in the bucket or in the key as a string never get the same id.
C14_CodecRoundTrip ==
  /\ \A c \in Clients :
       (reply[c].call = "getBucketFromId" /\ SeparatorFree(reply[c]))
         => reply[c].result = reply[c].buckets[1]
  /\ \A c, d \in Clients :
       (/\ reply[c].call = "getId" /\ SeparatorFree(reply[c])
        /\ reply[d].call = "getId" /\ SeparatorFree(reply[d])
        /\ \/ reply[c].buckets[1] # reply[d].buckets[1]
           \/ String(reply[c].keys[1]) # String(reply[d].keys[1]))
         => reply[c].result # reply[d].result

\* C14 as claimed: two different pairs of a bucket and a key never get the same id
C14_CodecInjectiveOnValues ==
  \A c, d \in Clients :
    (/\ reply[c].call = "getId" /\ SeparatorFree(reply[c])
     /\ reply[d].call = "getId" /\ SeparatorFree(reply[d])
     /\ <<reply[c].buckets[1], reply[c].keys[1]>> # <<reply[d].buckets[1], reply[d].keys[1]>>)
      => reply[c].result # reply[d].result

\* the bucket of two characters has come back from the id of a number of two digits,
\* and the other caller holds the id of a bucket that is a prefix of it
C14_Witness ==
  /\ reply[1].call = "getBucketFromId"
  /\ reply[1].buckets[1] = <<"a", "c">> /\ reply[1].keys[1] = Num(12)
  /\ reply[1].result = <<"a", "c">>
  /\ reply[2].call = "getId"
  /\ reply[2].buckets[1] = <<"a">> /\ reply[2].keys[1] = Str(<<"c">>)
  /\ reply[2].result = <<"a", ".", "c">>

\* no operation of the batch names the reserved attribute as a member
NamesNoBucketField(batch) == \A i \in 1..Len(batch) : BUCKET_FIELD \notin DOMAIN batch[i].data

\* C15: the non-empty-document invariant, commit by commit. After a successful end of
\* a batch that names no reserved attribute, on documents that each held a member when
\* the end call read them, every document of the batch that is stored holds a member
\* other than the reserved bucket attribute: one whose members are all gone is not
\* left stored.
C15_NoEmptyDocument ==
  \A c \in Clients :
    (/\ Succeeded(c)
     /\ NamesNoBucketField(ops[c])
     /\ \A id \in DOMAIN docs[c] :
          docs[c][id].snap.exists => MembersIn(docs[c][id].snap) # {})
      => \A id \in DOMAIN docs[c] : id \in DOMAIN store => MembersOf(store, id) # {}

\* C16: no falsy flag is ever stored. Every attribute of every stored document is
\* truthy, and every member attribute has the flag true; after a successful end, a
\* member whose last flag in the batch is false is not among the members of the
\* document: it is absent, not kept with the flag false.
C16_NoFalsyFlagStored ==
  /\ \A id \in DOMAIN store : \A a \in DOMAIN store[id] :
       /\ Truthy(store[id][a])
       /\ a # BUCKET_FIELD => store[id][a] = Flag(TRUE)
  /\ \A c \in Clients : \A id \in DOMAIN docs[c] :
       Succeeded(c) => \A m \in LastFalse(ops[c], id) : m \notin MembersOf(store, id)

\* the remove of one of the two members of a stored document has committed, and the
\* document is stored with the other member
C16_Witness ==
  \E c \in Clients : \E id \in DOMAIN docs[c] :
    /\ Succeeded(c)
    /\ Len(ops[c]) = 1 /\ IsRemove(ops[c][1]) /\ DOMAIN ops[c][1].data = {x}
    /\ MembersIn(docs[c][id].snap) = {x, y}
    /\ MembersOf(store, id) = {y}

\* C17: the reserved-attribute invariant. Every stored document is the document of a
\* bucket and a key, and carries the reserved bucket attribute with that bucket, the
\* one its own id begins with, as its value; this is so too after a batch that adds or
\* removes a member named like the reserved attribute.
C17_BucketFieldIsBucket ==
  /\ \A id \in DOMAIN store : \E pair \in Pairs : id = getId(pair[1], pair[2])
  /\ \A pair \in Pairs :
       getId(pair[1], pair[2]) \in DOMAIN store
         => /\ BUCKET_FIELD \in DOMAIN store[getId(pair[1], pair[2])]
            /\ store[getId(pair[1], pair[2])][BUCKET_FIELD] = Text(pair[1])

\* a batch that adds a member and then a member named like the reserved attribute to
\* one key has committed, and the document is stored
C17_Witness ==
  \E c \in Clients :
    /\ Succeeded(c)
    /\ Len(ops[c]) = 2 /\ ops[c][1].id = ops[c][2].id
    /\ IsAdd(ops[c][1]) /\ DOMAIN ops[c][1].data = {x}
    /\ IsAdd(ops[c][2]) /\ DOMAIN ops[c][2].data = {BUCKET_FIELD}
    /\ ops[c][1].id \in DOMAIN store
    /\ MembersOf(store, ops[c][1].id) = {x}
    /\ store[ops[c][1].id][BUCKET_FIELD] = Text(<<"a">>)

\* the ids the operations of a batch address
IdsOf(batch) == {batch[i].id : i \in 1..Len(batch)}

\* C18: the frame of a commit. An end call that succeeds has staged one write, a set
\* or a delete, for each id that an operation of its batch addresses, however many
\* address it, and none for another id; its commit leaves every document whose id no
\* operation of the batch addresses as it was.
C18_CommitFrame ==
  [][\A c \in Clients :
       /\ (pc[c] = "reading" /\ pc'[c] = "staged")
            => /\ DOMAIN tx'[c] = IdsOf(ops[c])
               /\ \A id \in DOMAIN tx'[c] : tx'[c][id].type \in {"set", "delete"}
       /\ (pc[c] = "staged" /\ pc'[c] = "idle" /\ cb'[c] = <<"null">>)
            => /\ DOMAIN tx[c] = IdsOf(ops[c])
               /\ \A id \in (DOMAIN store \cup DOMAIN store') \ IdsOf(ops[c]) :
                    Fetch(store', id) = Fetch(store, id)
               /\ \A id \in IdsOf(ops[c]) :
                    Fetch(store', id)
                      = IF tx[c][id].type = "set" THEN DocOf(tx[c][id].data) ELSE NoDoc]_vars

\* a batch of two operations on one key has committed with one write, which changed
\* the document of the key, while the store holds the document of another key
C18_Witness ==
  \E c \in Clients :
    /\ Succeeded(c)
    /\ Len(ops[c]) = 2 /\ ops[c][1].id = ops[c][2].id
    /\ DOMAIN tx[c] = {ops[c][1].id}
    /\ Fetch(store, ops[c][1].id) # docs[c][ops[c][1].id].snap
    /\ \E id \in DOMAIN store : id # ops[c][1].id

\* the end call of c is under way
Ending(c) == pc[c] \in {"reading", "staged"}

\* C19: every end call reports its outcome exactly once. The callback of an end call
\* is called when the call is over and at no other moment, once; with null only by the
\* step that commits the staged writes, and with an error when the read, the fold or
\* the commit has failed; and no end call stays under way for ever: each comes to the
\* step that ends it, which is the one that calls back.
C19_CallbackOnce ==
  /\ [](\A c \in Clients : Len(cb[c]) <= 1 /\ (Ending(c) => cb[c] = <<>>))
  /\ [][\A c \in Clients :
          /\ (Ending(c) /\ pc'[c] = "idle") => (cb[c] = <<>> /\ Len(cb'[c]) = 1)
          /\ (cb'[c] # cb[c] /\ cb'[c] # <<>>) => (Ending(c) /\ pc'[c] = "idle")
          /\ (Ending(c) /\ cb'[c] = <<"null">>)
               => (pc[c] = "staged" /\ store' = ApplyWrites(store, tx[c]))
          /\ (Ending(c) /\ pc'[c] = "idle" /\ cb'[c] # <<"null">>) => store' = store]_vars
  /\ \A c \in Clients : []<>(~Ending(c))

\* an end call on a store with documents has called back with the error of its read
C19_Witness ==
  \E c \in Clients :
    /\ pc[c] = "idle"
    /\ cb[c] = <<"ReadError">>
    /\ ops[c] # <<>>
    /\ store # Empty

\* the ids unions fetches for its latest call: every bucket with every key
Addressed(r) ==
  {getId(r.buckets[i], r.keys[j]) : i \in 1..Len(r.buckets), j \in 1..Len(r.keys)}

\* C20, as amended: bucket attribution in unions. The members of each fetched document
\* are counted under the bucket its id begins with, the one of the buckets asked for
\* that the id was built from, whatever its reserved bucket attribute holds: a document
\* whose attribute names another bucket is still reported under the bucket of its id.
C20_UnionsByIdBucket ==
  \A c \in Clients :
    reply[c].call = "unions"
      => /\ reply[c].err = "null"
         /\ \A b \in Range(reply[c].buckets) :
              Range(reply[c].result[b])
                = UNION {MembersOf(store, id) :
                           id \in {getId(b, reply[c].keys[j]) : j \in 1..Len(reply[c].keys)}}

\* C20 as claimed: the members of each fetched document are counted under the bucket
\* that its stored reserved attribute names
C20_UnionsByStoredAttribute ==
  \A c \in Clients :
    reply[c].call = "unions"
      => /\ reply[c].err = "null"
         /\ \A b \in Range(reply[c].buckets) :
              Range(reply[c].result[b])
                = UNION {MembersOf(store, id) :
                           id \in {i \in Addressed(reply[c]) \cap DOMAIN store :
                                     store[i][BUCKET_FIELD] = Text(b)}}

\* unions has answered for the two buckets while a document of the first, with a
\* member, holds the name of the second in its reserved attribute
C20_Witness ==
  \E c \in Clients :
    /\ reply[c].call = "unions"
    /\ reply[c].buckets = <<(<<"a">>), (<<"b">>)>>
    /\ \E id \in Addressed(reply[c]) \cap DOMAIN store :
         /\ id = getId(<<"a">>, Str(<<"k">>))
         /\ store[id][BUCKET_FIELD] = Text(<<"b">>)
         /\ MembersOf(store, id) = {x}
    /\ reply[c].result[<<"a">>] = <<x>>
    /\ reply[c].result[<<"b">>] = <<>>

====
